---- MODULE Spec2Model ----
(***************************************************************************)
(* primitive_db: a file-backed table store driven by a command loop.       *)
(* The model covers the persisted schema document (db_meta.json), the      *)
(* per-table record documents (data/<table>.json), the process-wide select *)
(* cache, and one action per command handler of engine.py, each running    *)
(* the whole handler: load_metadata, the decorated core.py operation,      *)
(* the unpacking of its result and the save_metadata that may follow.      *)
(* Left out of the printed output: the line log_time adds to insert and    *)
(* select when the call took longer than LOG_TIME_THRESHOLD.               *)
(* The handlers take their arguments already parsed; the dispatcher's      *)
(* lowercasing of the command line (parse_complex_command) is not applied  *)
(* to them, so a column named ID and an answer Y are among the inputs.     *)
(***************************************************************************)
EXTENDS Integers, Sequences, FiniteSets, TLC

(* ------------------------------ bounds -------------------------------- *)
\* most records the record documents hold when the commands that write
\* documents run (SpecStore); insert assigns IDs up to one more
MaxRecords == 3
\* the same when select and its cache run too (Spec)
MaxCachedRecords == 2
\* the same, both tables together, when two tables are created (SpecTables)
MaxTableRecords == 2
\* the same when whole command lines run (SpecLoop)
MaxLoopRecords == 2
\* the same, both tables together, when select and table_info run over two
\* tables (SpecFrame)
MaxFrameRecords == 2

(* ------------------------------ values -------------------------------- *)
\* A Python value of one of the three kinds the store knows.  n is the
\* integer itself, 1/0 for True/False, or a text (its index among the text
\* literals where the handlers take parsed values, the text itself where the
\* command line is parsed).
IntV(n) == [k |-> "int", n |-> n]
BoolV(b) == [k |-> "bool", n |-> IF b THEN 1 ELSE 0]
StrV(n) == [k |-> "str", n |-> n]

\* (a slip: every pair of values taken as equal)
PyEqAnyMutant(x, y) == TRUE
\* Python ==/!= between two such values: bool is a subclass of int, so
\* True == 1 and False == 0; text equals only text.
PyEq(x, y) ==
    IF x.k = "str" \/ y.k = "str"
    THEN x.k = y.k /\ x.n = y.n
    ELSE x.n = y.n

\* isinstance(value, int | str | bool) as validate_data_types uses it
IsInstance(v, ty) ==
    CASE ty = "int" -> v.k \in {"int", "bool"}
      [] ty = "str" -> v.k = "str"
      [] ty = "bool" -> v.k = "bool"
      [] OTHER -> FALSE

VALID_TYPES == {"int", "str", "bool"}

\* str.lower() on the type names, prompt answers and words the model feeds in
Lower(s) ==
    CASE s = "INT" -> "int" [] s = "Y" -> "y"
      [] s = "Alice" -> "alice" [] s = "EXIT" -> "exit"
      [] OTHER -> s

(* --------------------------- input domains ---------------------------- *)
TableNames == {"t1", "t2"}

\* the table create_table is given in SpecStore
StoreTables == {"t1"}

\* a column argument "name:type"; colon = FALSE is an argument without ':'
ColArg(n, ty) == [name |-> n, colon |-> TRUE, type |-> ty]
NoColonArg(n) == [name |-> n, colon |-> FALSE, type |-> ""]

ColumnLists ==
    { <<>>,
      <<ColArg("a", "int"), ColArg("b", "bool")>>,
      <<ColArg("a", "INT"), ColArg("b", "bool")>>,
      <<ColArg("a", "int"), ColArg("a", "int")>>,
      <<NoColonArg("a")>>,
      <<ColArg("a", "float")>>,
      <<ColArg("a", "int"), ColArg("b", "float")>> }

\* value lists of insert
ValueLists ==
    { <<IntV(1)>>, <<BoolV(TRUE)>>, <<StrV(1)>>,
      <<IntV(1), BoolV(TRUE)>>, <<BoolV(TRUE), BoolV(TRUE)>>, <<IntV(1), IntV(1)>>,
      <<StrV(1), BoolV(TRUE)>> }

\* one entry of a WHERE or SET mapping
Entry(c, v) == [col |-> c, val |-> v]

\* WHERE mappings of update and delete (the handlers refuse an empty one)
WhereClauses ==
    { <<Entry("a", IntV(1))>>, <<Entry("ID", IntV(2))>>, <<Entry("zz", IntV(1))>>,
      <<Entry("ID", IntV(1)), Entry("a", IntV(1))>> }

\* predicates of select; <<>> is "select from T" without WHERE
SelectClauses == { <<>>, <<Entry("a", IntV(1))>> }

SetClauses ==
    { <<Entry("a", IntV(0))>>, <<Entry("ID", IntV(1)), Entry("a", IntV(0))>>,
      <<Entry("zz", IntV(0))>>, <<Entry("a", StrV(1))>> }

\* answers typed at the confirmation prompt ("y" answers as "Y" does);
\* INTERRUPT is Ctrl-C or end of input
Answers == {"Y", "n", "INTERRUPT"}

\* the narrower inputs of the specification that runs select too
CachedTables == {"t1"}
LeanColumnLists ==
    { <<>>, <<ColArg("a", "int"), ColArg("b", "bool")>>,
      <<ColArg("a", "INT"), ColArg("b", "bool")>>, <<ColArg("a", "float")>> }
LeanValueLists == { <<IntV(1), BoolV(TRUE)>>, <<IntV(1)>> }
LeanSetClauses == { <<Entry("a", IntV(0))>> }
LeanWhereClauses == { <<Entry("a", IntV(1))>>, <<Entry("ID", IntV(2))>> }

(* ------------------------------ helpers ------------------------------- *)
SeqToSet(s) == {s[i] : i \in 1..Len(s)}

RECURSIVE SumOver(_, _)
SumOver(S, F) ==
    IF S = {} THEN 0
    ELSE LET x == CHOOSE y \in S : TRUE IN F[x] + SumOver(S \ {x}, F)

\* the number of records on disk, all tables together
TotalRecords(f) == SumOver(DOMAIN f, [t \in DOMAIN f |-> Len(f[t].data)])

\* (a slip: the synthetic column under another name)
IdColumnLowerMutant == [name |-> "id", type |-> "int"]
\* the ID column create_table puts first
IdColumn == [name |-> "ID", type |-> "int"]

(* ------------------------------- state -------------------------------- *)
VARIABLES
    meta,    \* db_meta.json: sequence of [name, columns] in dict order
    files,   \* data/<table>.json per table name: [exists, data]
    cache,   \* the cacher's dict: the set of its [key, value] items
    last     \* the last command: [op, tbl, ret, out]

vars == <<meta, files, cache, last>>

\* the tuple an engine operation returns, or None
Ret(ok, msg, args, data) ==
    [none |-> FALSE, ok |-> ok, msg |-> msg, args |-> args, data |-> data]
None == [none |-> TRUE, ok |-> FALSE, msg |-> "None", args |-> <<>>, data |-> <<>>]

\* what an engine call leaves behind: its return value, the in-memory
\* metadata dict, the documents on disk and the lines it printed itself
Outcome(ret, m, f, printed) == [ret |-> ret, meta |-> m, files |-> f, printed |-> printed]

(* ------------------------- utils.py: documents ------------------------ *)
NoFile == [exists |-> FALSE, data |-> <<>>]

load_table_data(f, table_name) == f[table_name].data

\* (a slip: one path for every table, so that each document gets the data)
save_table_data_AnyPathMutant(f, table_name, data) ==
    [t \in DOMAIN f |-> IF t = table_name \/ f[t].exists
                        THEN [exists |-> TRUE, data |-> data] ELSE f[t]]
save_table_data(f, table_name, data) ==
    [f EXCEPT ![table_name] = [exists |-> TRUE, data |-> data]]

\* (a slip: the document left on disk)
delete_table_file_KeptMutant(f, table_name) == f
\* (a slip: the document emptied instead of removed)
delete_table_file_EmptiedMutant(f, table_name) ==
    [f EXCEPT ![table_name] = [exists |-> TRUE, data |-> <<>>]]
delete_table_file(f, table_name) == [f EXCEPT ![table_name] = NoFile]

(* --------------------------- core.py: schema -------------------------- *)
\* table_name in metadata
InMetadata(m, table_name) == \E i \in 1..Len(m) : m[i].name = table_name

\* metadata[table_name]["columns"]
ColumnsOf(m, table_name) ==
    LET i == CHOOSE j \in 1..Len(m) : m[j].name = table_name IN m[i].columns

\* the keys of the dict get_column_types builds, in insertion order: a
\* repeated column name keeps the place of its first occurrence
RECURSIVE DictKeys(_)
DictKeys(cols) ==
    IF cols = <<>> THEN <<>>
    ELSE LET front == DictKeys(SubSeq(cols, 1, Len(cols) - 1))
             nm == cols[Len(cols)].name
         IN IF nm \in SeqToSet(front) THEN front ELSE Append(front, nm)

\* column_types[col_name]: a repeated column name keeps its last type
DictTypeOf(cols, nm) ==
    LET i == CHOOSE j \in 1..Len(cols) :
                 cols[j].name = nm /\ \A h \in (j + 1)..Len(cols) : cols[h].name # nm
    IN cols[i].type

get_column_types(m, table_name) ==
    IF ~InMetadata(m, table_name) THEN [keys |-> <<>>, cols |-> <<>>]
    ELSE [keys |-> DictKeys(ColumnsOf(m, table_name)), cols |-> ColumnsOf(m, table_name)]

\* list(column_types.keys())[1:]
DataColumns(column_types) ==
    IF column_types.keys = <<>> THEN <<>> ELSE Tail(column_types.keys)

validate_column_format(col) == col.colon /\ Lower(col.type) \in VALID_TYPES

\* (a slip: no test that the name is already there)
create_table_UncheckedNameMutant(m, f, table_name, columns) ==
    IF \E i \in 1..Len(columns) : ~validate_column_format(columns[i])
    THEN Outcome(Ret(FALSE, "ERROR_INVALID_FORMAT", <<>>, <<>>), m, f, <<>>)
    ELSE Outcome(Ret(TRUE, "SUCCESS_TABLE_CREATED", <<>>, <<>>),
                 Append(SelectSeq(m, LAMBDA e : e.name # table_name),
                        [name |-> table_name,
                         columns |-> <<IdColumn>> \o
                             [i \in 1..Len(columns) |->
                                 [name |-> columns[i].name, type |-> Lower(columns[i].type)]]]),
                 save_table_data(f, table_name, <<>>), <<>>)
create_table(m, f, table_name, columns) ==
    IF InMetadata(m, table_name)
    THEN Outcome(Ret(FALSE, "ERROR_TABLE_EXISTS", <<>>, <<>>), m, f, <<>>)
    ELSE IF \E i \in 1..Len(columns) : ~validate_column_format(columns[i])
    THEN LET i == CHOOSE j \in 1..Len(columns) :
                      /\ ~validate_column_format(columns[j])
                      /\ \A h \in 1..(j - 1) : validate_column_format(columns[h])
         IN Outcome(Ret(FALSE, IF columns[i].colon THEN "ERROR_UNSUPPORTED_TYPE"
                                                   ELSE "ERROR_INVALID_FORMAT",
                        <<>>, <<>>), m, f, <<>>)
    ELSE LET parsed_columns == [i \in 1..Len(columns) |->
                                   [name |-> columns[i].name, type |-> Lower(columns[i].type)]]
             full_columns == <<IdColumn>> \o parsed_columns
             m2 == Append(m, [name |-> table_name, columns |-> full_columns])
         IN Outcome(Ret(TRUE, "SUCCESS_TABLE_CREATED", <<>>, <<>>),
                    m2, save_table_data(f, table_name, <<>>), <<>>)

(* --------------------------- core.py: insert -------------------------- *)
validate_data_types(values, column_types) ==
    LET data_columns == DataColumns(column_types) IN
    /\ Len(values) = Len(data_columns)
    /\ \A i \in 1..Len(values) :
           IsInstance(values[i], DictTypeOf(column_types.cols, data_columns[i]))

\* max(ids): raises TypeError as soon as a text ID takes part (alone it is
\* returned and the following + 1 raises)
MaxRaises(table_data) == \E i \in 1..Len(table_data) : table_data[i]["ID"].k = "str"

MaxOf(S) == CHOOSE x \in S : \A y \in S : y <= x

\* (a slip: every record numbered 1)
NewIdOneMutant(table_data) == 1
\* (a slip: the record count taken for the largest ID)
NewIdCountMutant(table_data) == Len(table_data) + 1
\* new_id = 1, or max(ids) + 1 when the table has records
NewId(table_data) ==
    IF table_data = <<>> THEN 1
    ELSE MaxOf({table_data[i]["ID"].n : i \in 1..Len(table_data)}) + 1

\* (a slip: the values zipped in reverse order)
NewRecordReversedMutant(new_id, data_columns, values) ==
    [c \in {"ID"} \cup SeqToSet(data_columns) |->
        IF c = "ID" THEN IntV(new_id)
        ELSE values[Len(values) + 1
                    - CHOOSE i \in 1..Len(data_columns) : data_columns[i] = c]]
\* (a slip: the last column left out of the record)
NewRecordShortMutant(new_id, data_columns, values) ==
    [c \in {"ID"} \cup SeqToSet(SubSeq(data_columns, 1, Len(data_columns) - 1)) |->
        IF c = "ID" THEN IntV(new_id)
        ELSE values[CHOOSE i \in 1..Len(data_columns) : data_columns[i] = c]]
\* new_record = {"ID": new_id} then new_record[col_name] = value per zip
NewRecord(new_id, data_columns, values) ==
    [c \in {"ID"} \cup SeqToSet(data_columns) |->
        IF c = "ID" THEN IntV(new_id)
        ELSE values[CHOOSE i \in 1..Len(data_columns) : data_columns[i] = c]]

insert(m, f, table_name, values) ==
    IF ~InMetadata(m, table_name)
    THEN Outcome(Ret(FALSE, "ERROR_TABLE_NOT_EXISTS", <<>>, <<>>), m, f, <<>>)
    ELSE
    LET table_data == load_table_data(f, table_name)
        column_types == get_column_types(m, table_name)
        data_columns == DataColumns(column_types)
    IN
    IF Len(values) # Len(data_columns)
    THEN Outcome(Ret(FALSE, "ERROR_WRONG_VALUE_COUNT",
                     <<IntV(Len(data_columns)), IntV(Len(values))>>, <<>>), m, f, <<>>)
    ELSE IF ~validate_data_types(values, column_types)
    THEN Outcome(Ret(FALSE, "ERROR_TYPE_MISMATCH", <<>>, <<>>), m, f, <<>>)
    ELSE IF table_data # <<>> /\ MaxRaises(table_data)
    THEN Outcome(None, m, f, <<"DB_UNEXPECTED_ERROR">>)
    ELSE LET new_id == NewId(table_data)
             new_record == NewRecord(new_id, data_columns, values)
         IN Outcome(Ret(TRUE, "SUCCESS_RECORD_ADDED", <<IntV(new_id)>>, <<>>),
                    m, save_table_data(f, table_name, Append(table_data, new_record)), <<>>)

(* --------------------------- core.py: select -------------------------- *)
\* A WHERE or SET mapping is a sequence of [col, val] entries (a dict in
\* insertion order); the empty sequence stands for "no predicate" (None).
\* The inner loop of select/update/delete: record.get(column) != value
\* breaks the match; a column the record lacks gives None, never equal.
\* (a slip: only the first entry of the mapping compared)
MatchesFirstEntryMutant(record, where_clause) ==
    where_clause # <<>> =>
        /\ where_clause[1].col \in DOMAIN record
        /\ PyEq(record[where_clause[1].col], where_clause[1].val)
Matches(record, where_clause) ==
    \A i \in 1..Len(where_clause) :
        /\ where_clause[i].col \in DOMAIN record
        /\ PyEq(record[where_clause[i].col], where_clause[i].val)

IdsOf(records) == [i \in 1..Len(records) |-> records[i]["ID"]]

\* cache_key = f"select_{table_name}_{str(where_clause)}"
CacheKey(table_name, where_clause) == [tbl |-> table_name, where |-> where_clause]

\* key in cache, cache[key]: the dict as the set of its [key, value] items
InCache(c, key) == \E e \in c : e.key = key
CacheGet(c, key) == (CHOOSE e \in c : e.key = key).value

execute_select(m, f, table_name, where_clause) ==
    IF ~InMetadata(m, table_name)
    THEN Ret(FALSE, "ERROR_TABLE_NOT_EXISTS", <<>>, <<>>)
    ELSE
    LET table_data == load_table_data(f, table_name) IN
    IF table_data = <<>>
    THEN Ret(TRUE, "TABLE_EMPTY", <<>>, <<>>)
    ELSE IF where_clause # <<>>
    THEN LET filtered_data == SelectSeq(table_data, LAMBDA r : Matches(r, where_clause)) IN
         IF filtered_data = <<>>
         THEN Ret(TRUE, "NO_RECORDS_FOUND", <<>>, <<>>)
         ELSE Ret(TRUE, "", <<>>, filtered_data)
    ELSE Ret(TRUE, "", <<>>, table_data)

\* cacher(cache_key, execute_select): the stored value when the key is in
\* the cache, else the computed value, stored under the key
\* (a slip: the value computed again and stored over the old one)
cache_result_RecomputeMutant(c, key, value) ==
    [value |-> value,
     cache |-> {e \in c : e.key # key} \cup {[key |-> key, value |-> value]}]
cache_result(c, key, value) ==
    IF InCache(c, key) THEN [value |-> CacheGet(c, key), cache |-> c]
    ELSE [value |-> value, cache |-> c \cup {[key |-> key, value |-> value]}]

select(m, f, c, table_name, where_clause) ==
    cache_result(c, CacheKey(table_name, where_clause),
                 execute_select(m, f, table_name, where_clause))

(* --------------------------- core.py: update -------------------------- *)
\* (a slip: only the first assignment applied)
ApplySetFirstOnlyMutant(record, set_clause) ==
    [c \in DOMAIN record \cup {set_clause[1].col} |->
        IF c = set_clause[1].col THEN set_clause[1].val ELSE record[c]]
\* for column, new_value in set_clause.items(): record[column] = new_value
ApplySet(record, set_clause) ==
    [c \in DOMAIN record \cup {set_clause[i].col : i \in 1..Len(set_clause)} |->
        IF \E i \in 1..Len(set_clause) : set_clause[i].col = c
        THEN set_clause[CHOOSE i \in 1..Len(set_clause) :
                            /\ set_clause[i].col = c
                            /\ \A h \in (i + 1)..Len(set_clause) : set_clause[h].col # c].val
        ELSE record[c]]

\* (a slip: no column of the clauses found missing)
FirstUnknownColumnNoneMutant(named, column_types) == 0
\* for col in ...: if col not in column_types: the place of the first column
\* that is not a key of column_types, 0 when every column is one
FirstUnknownColumn(named, column_types) ==
    IF \E i \in 1..Len(named) : named[i] \notin SeqToSet(column_types.keys)
    THEN CHOOSE j \in 1..Len(named) :
             /\ named[j] \notin SeqToSet(column_types.keys)
             /\ \A h \in 1..(j - 1) : named[h] \in SeqToSet(column_types.keys)
    ELSE 0

update(m, f, table_name, set_clause, where_clause) ==
    IF ~InMetadata(m, table_name)
    THEN Outcome(Ret(FALSE, "ERROR_TABLE_NOT_EXISTS", <<>>, <<>>), m, f, <<>>)
    ELSE
    LET column_types == get_column_types(m, table_name)
        named == [i \in 1..Len(set_clause) |-> set_clause[i].col]
                     \o [i \in 1..Len(where_clause) |-> where_clause[i].col]
        unknown == FirstUnknownColumn(named, column_types)
    IN
    IF unknown # 0
    THEN Outcome(Ret(FALSE, "ERROR_COLUMN_NOT_EXISTS", <<named[unknown], table_name>>, <<>>),
                 m, f, <<>>)
    ELSE
    LET table_data == load_table_data(f, table_name) IN
    IF table_data = <<>>
    THEN Outcome(Ret(FALSE, "TABLE_EMPTY", <<>>, <<>>), m, f, <<>>)
    ELSE
    LET new_data == [i \in 1..Len(table_data) |->
                        IF Matches(table_data[i], where_clause)
                        THEN ApplySet(table_data[i], set_clause)
                        ELSE table_data[i]]
        hit == {i \in 1..Len(table_data) : Matches(table_data[i], where_clause)}
        updated_ids == IdsOf(SelectSeq([i \in 1..Len(table_data) |->
                                            [at |-> i, ID |-> new_data[i]["ID"]]],
                                       LAMBDA r : r.at \in hit))
    IN
    IF hit = {}
    THEN Outcome(Ret(FALSE, "NO_MATCH", <<>>, <<>>), m, f, <<>>)
    ELSE Outcome(Ret(TRUE, "SUCCESS_RECORD_UPDATED", updated_ids, <<>>),
                 m, save_table_data(f, table_name, new_data), <<>>)

(* ------------------------- parser.py: clauses ------------------------- *)
\* A word of a command line: its text, and whether it opens a quote that
\* is never closed.  shlex.split removes the quotes around a literal, so a
\* quoted literal is the word of its text.
Word(s) == [s |-> s, open |-> FALSE]
OpenQuote(s) == [s |-> s, open |-> TRUE]

\* shlex.split raises ValueError on an unclosed quote
shlex_raises(words) == \E i \in 1..Len(words) : words[i].open

\* int(value_str) on the literals of the model
IsIntLiteral(s) == s = "30"
IntLiteral(s) == CASE s = "30" -> 30

parse_value(value_str) ==
    IF Lower(value_str) = "true" THEN BoolV(TRUE)
    ELSE IF Lower(value_str) = "false" THEN BoolV(FALSE)
    ELSE IF IsIntLiteral(value_str) THEN IntV(IntLiteral(value_str))
    ELSE StrV(value_str)

\* what a parser returns under handle_db_errors: its value, or None after
\* the decorator printed the ValueError it caught
Parsed(value) == [none |-> FALSE, value |-> value, printed |-> <<>>]
ParsedNone == [none |-> TRUE, value |-> <<>>, printed |-> <<>>]
ParseFailed == [none |-> TRUE, value |-> <<>>, printed |-> <<"VALIDATION_ERROR">>]

\* (a slip: a clause of any shape read as column, "=", value)
ClauseMalformedNeverMutant(words) == FALSE
\* len(parts) != 3 or parts[1] != '=', or shlex.split raising
ClauseMalformed(words) ==
    shlex_raises(words) \/ Len(words) # 3 \/ words[2].s # "="

parse_where_condition(words) ==
    IF words = <<>> THEN ParsedNone
    ELSE IF ClauseMalformed(words) THEN ParseFailed
    ELSE Parsed(<<Entry(words[1].s, parse_value(words[3].s))>>)

parse_set_clause(words) ==
    IF ClauseMalformed(words) THEN ParseFailed
    ELSE Parsed(<<Entry(words[1].s, parse_value(words[3].s))>>)

parse_insert_values(words) ==
    IF shlex_raises(words) THEN ParseFailed
    ELSE Parsed([i \in 1..Len(words) |-> parse_value(words[i].s)])

(* ----------------------- core.py: table listings ---------------------- *)
list_tables(m) == IF m = <<>> THEN "NO_TABLES" ELSE "TABLE_LIST"

\* (a slip: the count taken from the memoized unfiltered select when there
\* is one)
table_info_CachedMutant(m, f, table_name) ==
    IF ~InMetadata(m, table_name)
    THEN Ret(FALSE, "ERROR_TABLE_NOT_EXISTS", <<>>, <<>>)
    ELSE IF InCache(cache, CacheKey(table_name, <<>>))
    THEN Ret(TRUE, "TABLE_INFO",
             <<IntV(Len(CacheGet(cache, CacheKey(table_name, <<>>)).data))>>, <<>>)
    ELSE Ret(TRUE, "TABLE_INFO", <<IntV(Len(load_table_data(f, table_name)))>>, <<>>)
\* the record count is len(load_table_data(table_name)), read at the call
table_info(m, f, table_name) ==
    IF ~InMetadata(m, table_name)
    THEN Ret(FALSE, "ERROR_TABLE_NOT_EXISTS", <<>>, <<>>)
    ELSE Ret(TRUE, "TABLE_INFO", <<IntV(Len(load_table_data(f, table_name)))>>, <<>>)

(* ---------------------- decorators.py: confirm_action ----------------- *)
\* prompt.string(message).strip().lower() == 'y'; an interrupt or end of
\* input at the prompt, like any other answer, cancels
Confirmed(answer) == answer # "INTERRUPT" /\ Lower(answer) = "y"

Cancelled(m, f) == Outcome(None, m, f, <<"CANCELLED">>)

(* --------------------------- core.py: delete -------------------------- *)
delete_body(m, f, table_name, where_clause) ==
    IF ~InMetadata(m, table_name)
    THEN Outcome(Ret(FALSE, "ERROR_TABLE_NOT_EXISTS", <<>>, <<>>), m, f, <<>>)
    ELSE
    LET table_data == load_table_data(f, table_name) IN
    IF table_data = <<>>
    THEN Outcome(Ret(FALSE, "TABLE_EMPTY", <<>>, <<>>), m, f, <<>>)
    ELSE
    LET records_to_keep == SelectSeq(table_data, LAMBDA r : ~Matches(r, where_clause))
        deleted_ids == IdsOf(SelectSeq(table_data, LAMBDA r : Matches(r, where_clause)))
    IN
    IF deleted_ids = <<>>
    THEN Outcome(Ret(FALSE, "NO_MATCH", <<>>, <<>>), m, f, <<>>)
    ELSE Outcome(Ret(TRUE, "SUCCESS_RECORD_DELETED", deleted_ids, <<>>),
                 m, save_table_data(f, table_name, records_to_keep), <<>>)

delete(m, f, table_name, where_clause, answer) ==
    IF Confirmed(answer) THEN delete_body(m, f, table_name, where_clause)
    ELSE Cancelled(m, f)

(* ------------------------- core.py: drop_table ------------------------ *)
\* (a slip: the table dropped without the membership test)
drop_table_body_UncheckedMutant(m, f, table_name) ==
    Outcome(Ret(TRUE, "SUCCESS_TABLE_DROPPED", <<>>, <<>>),
            SelectSeq(m, LAMBDA e : e.name # table_name),
            delete_table_file(f, table_name), <<>>)
drop_table_body(m, f, table_name) ==
    IF ~InMetadata(m, table_name)
    THEN Outcome(Ret(FALSE, "ERROR_TABLE_NOT_EXISTS", <<>>, <<>>), m, f, <<>>)
    ELSE Outcome(Ret(TRUE, "SUCCESS_TABLE_DROPPED", <<>>, <<>>),
                 SelectSeq(m, LAMBDA e : e.name # table_name),
                 delete_table_file(f, table_name), <<>>)

drop_table(m, f, table_name, answer) ==
    IF Confirmed(answer) THEN drop_table_body(m, f, table_name)
    ELSE Cancelled(m, f)

(* ------------------------ engine.py: handlers ------------------------- *)
\* (a slip: run() without its "except Exception" clause, so that any other
\* exception leaves run() and ends the process with a traceback)
run_except_UncaughtMutant(exc) ==
    CASE exc = "KeyboardInterrupt" -> "INTERRUPTED"
      [] exc = "EOFError" -> "EXITING"
      [] OTHER -> "TRACEBACK"
\* the except clauses of run(): the line printed for an exception that
\* reaches the loop; the first two leave the loop, the last goes on
run_except(exc) ==
    CASE exc = "KeyboardInterrupt" -> "INTERRUPTED"
      [] exc = "EOFError" -> "EXITING"
      [] OTHER -> "UNEXPECTED_ERROR"

\* "success, message[, ...] = <engine call>" followed by print(result) in
\* run(): a None result cannot be unpacked, the TypeError reaches run()'s
\* "except Exception", which prints its own line
Printed(o) ==
    o.printed \o (IF o.ret.none THEN <<run_except("TypeError")>> ELSE <<o.ret.msg>>)

Last(op, table_name, ret, out) == [op |-> op, tbl |-> table_name, ret |-> ret, out |-> out]

handle_create_table(table_name, columns) ==
    IF Len(columns) < 1
    THEN /\ last' = Last("create_table", table_name, None, <<"ERROR_NOT_ENOUGH_ARGS">>)
         /\ UNCHANGED <<meta, files, cache>>
    ELSE IF \E i \in 1..Len(columns) : ~validate_column_format(columns[i])
    THEN /\ last' = Last("create_table", table_name, None, <<"ERROR_BAD_COLUMN_VALUE">>)
         /\ UNCHANGED <<meta, files, cache>>
    ELSE LET o == create_table(meta, files, table_name, columns) IN
         /\ meta' = IF o.ret.ok THEN o.meta ELSE meta
         /\ files' = o.files
         /\ last' = Last("create_table", table_name, o.ret, Printed(o))
         /\ UNCHANGED cache

handle_insert(table_name, values) ==
    LET o == insert(meta, files, table_name, values) IN
    /\ files' = o.files
    /\ last' = Last("insert", table_name, o.ret, Printed(o))
    /\ UNCHANGED <<meta, cache>>

\* what handle_select returns for print after the select call: the failure
\* message, "no data", or the table drawn from metadata[table_name] (a
\* KeyError when the name is not there, printed by run())
select_shown(m, ret, table_name) ==
    IF ~ret.ok THEN <<ret.msg>>
    ELSE IF ret.data = <<>> THEN <<"NO_DATA">>
    ELSE IF ~InMetadata(m, table_name) THEN <<run_except("KeyError")>>
    ELSE <<"TABLE">>

\* handle_info past its argument count: table_info called, its message shown
handle_info(table_name) ==
    LET ret == table_info(meta, files, table_name) IN
    /\ last' = Last("info", table_name, ret, <<ret.msg>>)
    /\ UNCHANGED <<meta, files, cache>>

handle_select(table_name, where_clause) ==
    LET r == select(meta, files, cache, table_name, where_clause)
        ret == r.value
    IN
    /\ cache' = r.cache
    /\ last' = Last("select", table_name, ret, select_shown(meta, ret, table_name))
    /\ UNCHANGED <<meta, files>>

handle_update(table_name, set_clause, where_clause) ==
    LET o == update(meta, files, table_name, set_clause, where_clause) IN
    /\ files' = o.files
    /\ last' = Last("update", table_name, o.ret, Printed(o))
    /\ UNCHANGED <<meta, cache>>

handle_delete(table_name, where_clause, answer) ==
    LET o == delete(meta, files, table_name, where_clause, answer) IN
    /\ files' = o.files
    /\ last' = Last("delete", table_name, o.ret, Printed(o))
    /\ UNCHANGED <<meta, cache>>

handle_drop_table(table_name, answer) ==
    LET o == drop_table(meta, files, table_name, answer) IN
    /\ meta' = IF o.ret.ok THEN o.meta ELSE meta
    /\ files' = o.files
    /\ last' = Last("drop_table", table_name, o.ret, Printed(o))
    /\ UNCHANGED cache

(* --------------------- engine.py: the command line -------------------- *)
\* the words of a line from the n-th on (a Python slice parts[n-1:])
From(words, n) == SubSeq(words, n, Len(words))

\* list.index(word): the place of the first such word, 0 when absent
IndexOf(words, word) ==
    IF \E i \in 1..Len(words) : words[i].s = word
    THEN CHOOSE i \in 1..Len(words) :
             words[i].s = word /\ \A j \in 1..(i - 1) : words[j].s # word
    ELSE 0

\* full_command.lower().split(): every word of the line in lower case
LowerWords(line) == [i \in 1..Len(line) |-> [line[i] EXCEPT !.s = Lower(line[i].s)]]

Command(command, args) == [command |-> command, args |-> args]

parse_complex_command(line) ==
    LET parts == LowerWords(line)
        n == Len(parts)
    IN
    IF n = 0 THEN Command("", <<>>)
    ELSE IF n >= 4 /\ parts[1].s = "insert" /\ parts[2].s = "into"
    THEN Command("insert", From(parts, 3))
    ELSE IF n >= 3 /\ parts[1].s = "select" /\ parts[2].s = "from"
    THEN Command("select", From(parts, 3))
    ELSE IF n >= 2 /\ parts[1].s = "update" THEN Command("update", From(parts, 2))
    ELSE IF n >= 4 /\ parts[1].s = "delete" /\ parts[2].s = "from"
    THEN Command("delete", From(parts, 3))
    ELSE IF n >= 2 /\ parts[1].s = "info" THEN Command("info", From(parts, 2))
    ELSE IF n >= 2 /\ parts[1].s = "create_table"
    THEN Command("create_table", From(parts, 2))
    ELSE IF n >= 2 /\ parts[1].s = "drop_table"
    THEN Command("drop_table", From(parts, 2))
    ELSE Command(parts[1].s, From(parts, 2))

\* a line answered by a message alone
Reply(op, table_name, out) ==
    /\ last' = Last(op, table_name, None, out)
    /\ UNCHANGED <<meta, files, cache>>

\* a column word "name:type" as the argument create_table splits at ':'
ColumnOf(word) ==
    CASE word.s = "name:str" -> ColArg("name", "str")
      [] word.s = "age:int" -> ColArg("age", "int")
      [] OTHER -> NoColonArg(word.s)

handle_create_table_line(args) ==
    IF Len(args) < 2 THEN Reply("create_table", "", <<"ERROR_NOT_ENOUGH_ARGS">>)
    ELSE handle_create_table(args[1].s, [i \in 1..(Len(args) - 1) |-> ColumnOf(args[i + 1])])

handle_drop_table_line(args, answer) ==
    IF Len(args) # 1 THEN Reply("drop_table", "", <<"ERROR_ARG_COUNT">>)
    ELSE handle_drop_table(args[1].s, answer)

\* insert(metadata, table_name, None): the table test comes first, then
\* len(None) raises a TypeError that handle_db_errors prints
insert_None(m, f, table_name) ==
    IF ~InMetadata(m, table_name)
    THEN Outcome(Ret(FALSE, "ERROR_TABLE_NOT_EXISTS", <<>>, <<>>), m, f, <<>>)
    ELSE Outcome(None, m, f, <<"DB_UNEXPECTED_ERROR">>)

handle_insert_line(args) ==
    IF Len(args) < 2 THEN Reply("insert", "", <<"ERROR_BAD_FORMAT">>)
    ELSE IF args[2].s # "values" THEN Reply("insert", args[1].s, <<"ERROR_NO_VALUES">>)
    ELSE LET table_name == args[1].s
             values == parse_insert_values(From(args, 3))
         IN IF ~values.none THEN handle_insert(table_name, values.value)
            ELSE LET o == insert_None(meta, files, table_name) IN
                 /\ last' = Last("insert", table_name, o.ret, values.printed \o Printed(o))
                 /\ UNCHANGED <<meta, files, cache>>

\* a WHERE that parse_where_condition gave up on reaches select as None,
\* as the missing WHERE does
handle_select_line(args) ==
    IF Len(args) < 1 THEN Reply("select", "", <<"ERROR_BAD_FORMAT">>)
    ELSE IF Len(args) > 1 /\ args[2].s # "where"
    THEN Reply("select", args[1].s, <<"ERROR_BAD_WHERE_FORMAT">>)
    ELSE LET table_name == args[1].s
             parsed == IF Len(args) > 1 THEN parse_where_condition(From(args, 3))
                       ELSE ParsedNone
             where_clause == IF parsed.none THEN <<>> ELSE parsed.value
             r == select(meta, files, cache, table_name, where_clause)
         IN /\ cache' = r.cache
            /\ last' = Last("select", table_name, r.value,
                            parsed.printed \o select_shown(meta, r.value, table_name))
            /\ UNCHANGED <<meta, files>>

\* update(metadata, table_name, None, where_clause): the table test comes
\* first, then None.keys() raises an AttributeError that handle_db_errors
\* prints
update_None(m, f, table_name) ==
    IF ~InMetadata(m, table_name)
    THEN Outcome(Ret(FALSE, "ERROR_TABLE_NOT_EXISTS", <<>>, <<>>), m, f, <<>>)
    ELSE Outcome(None, m, f, <<"DB_UNEXPECTED_ERROR">>)

handle_update_line(args) ==
    LET set_idx == IndexOf(args, "set")
        where_idx == IndexOf(args, "where")
    IN
    IF Len(args) < 4 THEN Reply("update", "", <<"ERROR_BAD_FORMAT">>)
    ELSE IF set_idx = 0 THEN Reply("update", args[1].s, <<"ERROR_NO_SET">>)
    ELSE IF where_idx = 0 THEN Reply("update", args[1].s, <<"ERROR_NO_WHERE_KEYWORD">>)
    ELSE IF where_idx <= set_idx + 1 THEN Reply("update", args[1].s, <<"ERROR_BAD_FORMAT">>)
    ELSE LET table_name == args[1].s
             set_clause == parse_set_clause(SubSeq(args, set_idx + 1, where_idx - 1))
             where_clause == parse_where_condition(From(args, where_idx + 1))
             printed == set_clause.printed \o where_clause.printed
         IN IF where_clause.none
            THEN Reply("update", table_name, printed \o <<"ERROR_NO_WHERE_CONDITION">>)
            ELSE IF ~set_clause.none
            THEN handle_update(table_name, set_clause.value, where_clause.value)
            ELSE LET o == update_None(meta, files, table_name) IN
                 /\ last' = Last("update", table_name, o.ret, printed \o Printed(o))
                 /\ UNCHANGED <<meta, files, cache>>

handle_delete_line(args, answer) ==
    IF Len(args) < 3 THEN Reply("delete", "", <<"ERROR_BAD_FORMAT">>)
    ELSE IF args[2].s # "where"
    THEN Reply("delete", args[1].s, <<"ERROR_NO_WHERE_KEYWORD">>)
    ELSE LET table_name == args[1].s
             where_clause == parse_where_condition(From(args, 3))
         IN IF where_clause.none
            THEN Reply("delete", table_name,
                       where_clause.printed \o <<"ERROR_NO_WHERE_CONDITION">>)
            ELSE handle_delete(table_name, where_clause.value, answer)

handle_info_line(args) ==
    IF Len(args) # 1 THEN Reply("info", "", <<"ERROR_INFO_USAGE">>)
    ELSE handle_info(args[1].s)

\* one turn of the loop of run() on a line that was read; answer is what is
\* typed if the command asks for confirmation
run_line(line, answer) ==
    LET parsed == parse_complex_command(line)
        command == parsed.command
        args == parsed.args
    IN
    IF line = <<>> THEN Reply("", "", <<"PLEASE_ENTER_COMMAND">>)
    ELSE IF command = "exit" THEN Reply("exit", "", <<"EXITING">>)
    ELSE IF command = "help" THEN Reply("help", "", <<"HELP">>)
    ELSE IF command = "create_table" THEN handle_create_table_line(args)
    ELSE IF command = "drop_table" THEN handle_drop_table_line(args, answer)
    ELSE IF command = "list_tables" THEN Reply("list_tables", "", <<list_tables(meta)>>)
    ELSE IF command = "insert" THEN handle_insert_line(args)
    ELSE IF command = "select" THEN handle_select_line(args)
    ELSE IF command = "update" THEN handle_update_line(args)
    ELSE IF command = "delete" THEN handle_delete_line(args, answer)
    ELSE IF command = "info" THEN handle_info_line(args)
    ELSE Reply(command, "", <<"NO_SUCH_FUNCTION">>)

\* Ctrl-C or end of input at the command prompt
run_interrupted(exc) == Reply(exc, "", <<run_except(exc)>>)

\* the loop was left: by break, or by an exception that nothing caught
Stopped ==
    \E i \in 1..Len(last.out) : last.out[i] \in {"EXITING", "INTERRUPTED", "TRACEBACK"}

(* --------------------------- specification ---------------------------- *)
Init ==
    /\ meta = <<>>
    /\ files = [t \in TableNames |-> NoFile]
    /\ cache = {}
    /\ last = Last("start", "", None, <<>>)

\* the bound on the documents a step may leave behind
Within(f, maxRecords, maxId) ==
    /\ TotalRecords(f) <= maxRecords
    /\ \A t \in DOMAIN f : \A i \in 1..Len(f[t].data) : f[t].data[i]["ID"].n <= maxId

\* Every command of the loop, select and its cache included, over one table.
Next ==
    \/ \E t \in CachedTables, cols \in LeanColumnLists : handle_create_table(t, cols)
    \/ \E t \in CachedTables, vs \in LeanValueLists :
           handle_insert(t, vs) /\ Within(files', MaxCachedRecords, MaxCachedRecords + 1)
    \/ \E t \in CachedTables, w \in SelectClauses : handle_select(t, w)
    \/ \E t \in CachedTables, sc \in LeanSetClauses, w \in LeanWhereClauses :
           handle_update(t, sc, w)
    \/ \E t \in CachedTables, w \in LeanWhereClauses, ans \in Answers :
           handle_delete(t, w, ans)
    \/ \E t \in CachedTables, ans \in Answers : handle_drop_table(t, ans)

Spec == Init /\ [][Next]_vars

\* The commands that write the schema document or a record document, with
\* the wider inputs; select writes neither document.  One table is ever
\* created; the other name stands for a table that is absent.
NextStore ==
    \/ \E t \in StoreTables, cols \in ColumnLists : handle_create_table(t, cols)
    \/ \E t \in TableNames, vs \in ValueLists :
           handle_insert(t, vs) /\ Within(files', MaxRecords, MaxRecords + 1)
    \/ \E t \in TableNames, sc \in SetClauses, w \in WhereClauses : handle_update(t, sc, w)
    \/ \E t \in TableNames, w \in WhereClauses, ans \in Answers : handle_delete(t, w, ans)
    \/ \E t \in TableNames, ans \in Answers : handle_drop_table(t, ans)

SpecStore == Init /\ [][NextStore]_vars

\* The same commands over two tables that are both created and dropped,
\* with the narrower inputs.
NextTables ==
    \/ \E t \in TableNames, cols \in LeanColumnLists : handle_create_table(t, cols)
    \/ \E t \in TableNames, vs \in LeanValueLists :
           handle_insert(t, vs) /\ Within(files', MaxTableRecords, MaxTableRecords + 1)
    \/ \E t \in TableNames, sc \in LeanSetClauses, w \in LeanWhereClauses :
           handle_update(t, sc, w)
    \/ \E t \in TableNames, w \in LeanWhereClauses, ans \in Answers :
           handle_delete(t, w, ans)
    \/ \E t \in TableNames, ans \in Answers : handle_drop_table(t, ans)

SpecTables == Init /\ [][NextTables]_vars

\* Every command, select and table_info included, over two tables that are
\* both created and dropped, with one input of each kind.
FrameColumnLists == { <<ColArg("a", "int"), ColArg("b", "bool")>> }
FrameValueLists == { <<IntV(1), BoolV(TRUE)>> }
FrameWhereClauses == { <<Entry("a", IntV(1))>> }

NextFrame ==
    \/ \E t \in TableNames, cols \in FrameColumnLists : handle_create_table(t, cols)
    \/ \E t \in TableNames, vs \in FrameValueLists :
           handle_insert(t, vs) /\ Within(files', MaxFrameRecords, MaxFrameRecords + 1)
    \/ \E t \in TableNames : handle_select(t, <<>>)
    \/ \E t \in TableNames, sc \in LeanSetClauses, w \in FrameWhereClauses :
           handle_update(t, sc, w)
    \/ \E t \in TableNames, w \in FrameWhereClauses, ans \in Answers :
           handle_delete(t, w, ans)
    \/ \E t \in TableNames, ans \in Answers : handle_drop_table(t, ans)
    \/ \E t \in TableNames : handle_info(t)

SpecFrame == Init /\ [][NextFrame]_vars

\* The loop of run() fed with whole command lines, over one table.
LoopTables == {"users"}

W(texts) == [i \in 1..Len(texts) |-> Word(texts[i])]

Lines ==
    { <<>>,
      W(<<"create_table", "users", "name:str", "age:int">>),
      W(<<"create_table", "users">>),
      W(<<"insert", "into", "users", "values", "Alice", "30">>),
      W(<<"insert", "into", "users", "values">>) \o <<OpenQuote("Alice")>>,
      W(<<"select", "from", "users">>),
      W(<<"select", "from", "users", "where", "name", "=", "Alice">>),
      W(<<"select", "from", "users", "where", "name", "Alice">>),
      W(<<"select", "from", "users", "where", "name", "==", "Alice">>),
      W(<<"select", "from", "users", "name">>),
      W(<<"update", "users", "set", "age", "=", "30", "where", "name", "=", "Alice">>),
      W(<<"update", "users", "set", "age", "30", "where", "name", "=", "Alice">>),
      W(<<"update", "users", "set", "age", "=", "30", "where", "name", "Alice">>),
      W(<<"update", "users", "age", "=", "30">>),
      W(<<"delete", "from", "users", "where", "age", "=", "30">>),
      W(<<"delete", "from", "users", "where", "age", "30">>),
      W(<<"drop_table", "users">>),
      W(<<"info", "users">>),
      W(<<"list_tables">>),
      W(<<"help">>),
      W(<<"frobnicate", "users">>),
      W(<<"EXIT">>) }

InitLoop ==
    /\ meta = <<>>
    /\ files = [t \in LoopTables |-> NoFile]
    /\ cache = {}
    /\ last = Last("start", "", None, <<>>)

\* what may be typed after the line: an answer where the command asks for
\* confirmation, nothing ("") where no prompt appears
AnswersTo(line) ==
    IF parse_complex_command(line).command \in {"drop_table", "delete"}
    THEN Answers ELSE {""}

NextLoop ==
    /\ ~Stopped
    /\ \/ \E line \in Lines : \E ans \in AnswersTo(line) :
              run_line(line, ans) /\ Within(files', MaxLoopRecords, MaxLoopRecords + 1)
       \/ \E exc \in {"KeyboardInterrupt", "EOFError"} : run_interrupted(exc)

SpecLoop == InitLoop /\ [][NextLoop]_vars

(* ------------------------------ claims -------------------------------- *)
\* Helpers of the claims, written from the claims' words.

YesAnswers == {"y", "Y"}

\* the names of the declared columns after the leading ID, each name once,
\* at the place of its first declaration
RECURSIVE FirstOccurrences(_, _)
FirstOccurrences(names, i) ==
    IF i > Len(names) THEN <<>>
    ELSE (IF \E j \in 1..(i - 1) : names[j] = names[i] THEN <<>> ELSE <<names[i]>>)
             \o FirstOccurrences(names, i + 1)

DeclaredDataColumns(m, t) ==
    LET cols == ColumnsOf(m, t)
    IN FirstOccurrences([i \in 1..(Len(cols) - 1) |-> cols[i + 1].name], 1)

DistinctColumnNames(m, t) ==
    LET cols == ColumnsOf(m, t)
    IN \A i, j \in 1..Len(cols) : i # j => cols[i].name # cols[j].name

LargestId(records) ==
    CHOOSE n \in {records[i]["ID"].n : i \in 1..Len(records)} :
        \A i \in 1..Len(records) : records[i]["ID"].n <= n

\* the elements of s at the indexes in keep, in order
RECURSIVE Picked(_, _, _)
Picked(s, keep, i) ==
    IF i > Len(s) THEN <<>>
    ELSE (IF i \in keep THEN <<s[i]>> ELSE <<>>) \o Picked(s, keep, i + 1)

\* Equality of two stored values as the engine's comparison decides it:
\* text equals the same text; a number and a boolean are compared as
\* numbers (Python's ==, under which True equals 1 and False equals 0).
SameValue(x, y) == (x.k = "str") = (y.k = "str") /\ x.n = y.n

\* a record matches a WHERE mapping when it holds, for every entry, a value
\* equal to the entry's
RecordMatches(r, w) ==
    \A i \in 1..Len(w) : w[i].col \in DOMAIN r /\ SameValue(r[w[i].col], w[i].val)

\* a record with every SET assignment applied
WithAssignments(r, sc) ==
    [c \in DOMAIN r \cup {sc[i].col : i \in 1..Len(sc)} |->
        IF \E i \in 1..Len(sc) : sc[i].col = c
        THEN (CHOOSE e \in SeqToSet(sc) : e.col = c).val
        ELSE r[c]]

\* C1: a successful insert appends exactly one record: its ID is the largest
\* ID present before plus one (1 on an empty table), its other fields are
\* the values in column order, and the records present before keep their
\* content and place.
C1_InsertAppendsNextId ==
    [][last'.op = "insert" =>
        \A t \in TableNames, vs \in ValueLists :
            (handle_insert(t, vs) /\ last'.ret.ok) =>
                LET old == files[t].data
                    new == files'[t].data
                    cols == DeclaredDataColumns(meta, t)
                    rec == new[Len(new)]
                IN /\ Len(new) = Len(old) + 1
                   /\ SubSeq(new, 1, Len(old)) = old
                   /\ rec["ID"] = IntV(IF old = <<>> THEN 1 ELSE LargestId(old) + 1)
                   /\ DOMAIN rec = {"ID"} \cup SeqToSet(cols)
                   /\ Len(vs) = Len(cols)
                   /\ \A i \in 1..Len(cols) : rec[cols[i]] = vs[i]
                   /\ last'.ret.args = <<rec["ID"]>>]_vars

\* an insert into a table that held records 1 and 3 (2 was deleted) gave 4
C1_Witness ==
    /\ last.op = "insert" /\ last.ret.ok
    /\ IdsOf(files["t1"].data) = <<IntV(1), IntV(3), IntV(4)>>
    /\ Len(ColumnsOf(meta, "t1")) = 3 /\ DistinctColumnNames(meta, "t1")

\* C2: the "select from T" that follows a successful insert into T returns
\* the records of T with the new record (the one whose ID insert reported)
\* at the end.
C2_SelectSeesInsert ==
    [][(last.op = "insert" /\ last.ret.ok /\ last'.op = "select") =>
        \A t \in TableNames :
            (last.tbl = t /\ handle_select(t, <<>>)) =>
                LET got == last'.ret.data
                IN /\ last'.ret.ok
                   /\ got = files[t].data
                   /\ got # <<>>
                   /\ got[Len(got)]["ID"] = last.ret.args[1]]_vars

\* C3: every record's ID is a positive integer, and no two records of a
\* table have the same ID.
C3_IdsPositiveUnique ==
    \A t \in TableNames :
        LET d == files[t].data IN
        \A i \in 1..Len(d) :
            /\ d[i]["ID"].k = "int" /\ d[i]["ID"].n >= 1
            /\ \A j \in 1..Len(d) : i # j => d[i]["ID"] # d[j]["ID"]

C5_KindMismatchRejected ==
    [][last'.op = "insert" =>
        \A t \in TableNames, vs \in ValueLists :
            (/\ handle_insert(t, vs)
             /\ InMetadata(meta, t) /\ DistinctColumnNames(meta, t)
             /\ Len(vs) = Len(ColumnsOf(meta, t)) - 1
             /\ \E i \in 1..Len(vs) : vs[i].k # ColumnsOf(meta, t)[i + 1].type)
            => /\ last'.ret.msg = "ERROR_TYPE_MISMATCH"
               /\ files' = files]_vars

\* C6: insert answers NotFound for an absent table, and WrongValueCount
\* exactly when the number of values differs from the number of columns the
\* stored column list holds after the leading ID; neither failure changes a
\* record document.
C6_CountCheckedAgainstSchema ==
    [][last'.op = "insert" =>
        \A t \in TableNames, vs \in ValueLists :
            handle_insert(t, vs) =>
                IF ~InMetadata(meta, t)
                THEN last'.ret.msg = "ERROR_TABLE_NOT_EXISTS" /\ files' = files
                ELSE /\ (last'.ret.msg = "ERROR_WRONG_VALUE_COUNT")
                            <=> (Len(vs) # Len(ColumnsOf(meta, t)) - 1)
                     /\ last'.ret.msg = "ERROR_WRONG_VALUE_COUNT" => files' = files]_vars

\* C7: a successful update changes exactly the records that matched the
\* WHERE mapping before it: each gets every SET assignment, every other
\* record is the same, number and order of records stay, and the message
\* lists the IDs of the updated records in scan order.
C7_UpdateChangesMatchesOnly ==
    [][last'.op = "update" =>
        \A t \in TableNames, sc \in SetClauses, w \in WhereClauses :
            (last'.ret.ok /\ last'.tbl = t /\ handle_update(t, sc, w)) =>
                LET old == files[t].data
                    new == files'[t].data
                    hit == {i \in 1..Len(old) : RecordMatches(old[i], w)}
                IN /\ hit # {}
                   /\ Len(new) = Len(old)
                   /\ \A i \in 1..Len(old) :
                          new[i] = IF i \in hit THEN WithAssignments(old[i], sc) ELSE old[i]
                   /\ last'.ret.args = IdsOf(Picked(new, hit, 1))]_vars

\* an update that changed two records and left a third one alone
C7_Witness ==
    /\ last.op = "update" /\ last.ret.ok
    /\ Len(files["t1"].data) = 3 /\ Len(last.ret.args) = 2

\* C8: a delete (once confirmed) on a table with a matching record removes
\* exactly the matching records, keeps the others as they are and in their
\* order, and reports the removed IDs in scan order; on an empty table or
\* without a match it fails and the record list stays.
C8_DeleteRemovesMatchesOnly ==
    [][last'.op = "delete" =>
        \A t \in TableNames, w \in WhereClauses, ans \in Answers :
            handle_delete(t, w, ans) =>
                LET old == files[t].data
                    new == files'[t].data
                    hit == {i \in 1..Len(old) : RecordMatches(old[i], w)}
                IN IF hit # {}
                   THEN ans \in YesAnswers =>
                            /\ last'.ret.ok
                            /\ new = Picked(old, (1..Len(old)) \ hit, 1)
                            /\ last'.ret.args = IdsOf(Picked(old, hit, 1))
                   ELSE ~last'.ret.ok /\ files' = files]_vars

\* a delete that removed record 2 from between records 1 and 3
C8_Witness ==
    /\ last.op = "delete" /\ last.ret.ok
    /\ last.ret.args = <<IntV(2)>>
    /\ IdsOf(files["t1"].data) = <<IntV(1), IntV(3)>>

\* C9: a drop_table or delete whose confirmation is declined or interrupted
\* leaves the schema and the record documents as they are and prints the
\* cancellation notice and nothing else.
C9_DeclinePrintsOnlyNotice ==
    [][last'.op \in {"drop_table", "delete"} =>
        \A t \in TableNames, ans \in Answers \ YesAnswers :
            (\/ handle_drop_table(t, ans)
             \/ \E w \in WhereClauses : handle_delete(t, w, ans))
            => /\ meta' = meta /\ files' = files
               /\ last'.out = <<"CANCELLED">>]_vars

\* C10: drop_table on a name that is not in the schema changes neither the
\* schema nor any record document, and (once confirmed) answers NotFound.
C10_DropAbsentChangesNothing ==
    [][last'.op = "drop_table" =>
        \A t \in TableNames, ans \in Answers :
            (handle_drop_table(t, ans) /\ \A i \in 1..Len(meta) : meta[i].name # t) =>
                /\ meta' = meta /\ files' = files
                /\ ans \in YesAnswers =>
                       ~last'.ret.ok /\ last'.ret.msg = "ERROR_TABLE_NOT_EXISTS"]_vars

\* a confirmed drop_table of an absent name while another table holds records
C10_Witness ==
    /\ last.op = "drop_table" /\ last.ret.msg = "ERROR_TABLE_NOT_EXISTS"
    /\ InMetadata(meta, "t1") /\ Len(files["t1"].data) = 2

\* the sequence without its last element
Front(s) == SubSeq(s, 1, Len(s) - 1)

\* C11: a successful create_table of an absent name puts the new schema
\* after the schemas already stored and touches no other table's document;
\* the confirmed drop_table of that name that follows it takes exactly that
\* last schema away again and leaves no record document for the name, so
\* the schema store is the pre-creation one, the other tables in their order.
C11_CreateThenDropRestores ==
    [][\A t \in TableNames :
        /\ (last'.op = "create_table" /\ last'.tbl = t /\ last'.ret.ok) =>
               /\ ~InMetadata(meta, t) /\ ~files[t].exists
               /\ Front(meta') = meta /\ meta'[Len(meta')].name = t
               /\ \A u \in TableNames \ {t} : files'[u] = files[u]
        /\ (/\ last.op = "create_table" /\ last.tbl = t /\ last.ret.ok
            /\ last'.op = "drop_table"
            /\ \E ans \in YesAnswers \cap Answers : handle_drop_table(t, ans)) =>
               /\ last'.ret.ok
               /\ meta' = Front(meta)
               /\ ~files'[t].exists
               /\ \A u \in TableNames \ {t} : files'[u] = files[u]]_vars

\* t1 has just been dropped while t2, created before it, holds a record
C11_Witness ==
    /\ last.op = "drop_table" /\ last.tbl = "t1" /\ last.ret.ok
    /\ ~InMetadata(meta, "t1") /\ ~files["t1"].exists
    /\ InMetadata(meta, "t2") /\ Len(files["t2"].data) >= 1

\* the spellings of the three supported types among the inputs
SupportedTypeSpellings == {"int", "str", "bool", "INT"}

\* a column spec "name:type" with a supported type
WellFormedSpec(col) == col.colon /\ col.type \in SupportedTypeSpellings

\* C12: create_table on a name that is in the schema store fails and leaves
\* the schema and every record document as they are, with AlreadyExists as
\* its failure (the command reports a malformed or missing column spec
\* first); a column list with a spec that lacks ':' or names an unsupported
\* type fails too, registers no schema and creates no record document.
\* Both hold for the engine operation and for the command built on it.
C12_CreateFailsWithoutEffect ==
    [][last'.op = "create_table" =>
        \A t \in StoreTables, cols \in ColumnLists :
            handle_create_table(t, cols) =>
                LET o == create_table(meta, files, t, cols)
                    bad == \E i \in 1..Len(cols) : ~WellFormedSpec(cols[i])
                    unchanged == /\ ~o.ret.ok /\ o.meta = meta /\ o.files = files
                                 /\ ~last'.ret.ok /\ meta' = meta /\ files' = files
                IN /\ InMetadata(meta, t) =>
                       /\ unchanged
                       /\ o.ret.msg = "ERROR_TABLE_EXISTS"
                       /\ (cols # <<>> /\ ~bad) => last'.out = <<"ERROR_TABLE_EXISTS">>
                   /\ bad =>
                       /\ unchanged
                       /\ ~InMetadata(meta, t) =>
                              o.ret.msg \in {"ERROR_INVALID_FORMAT", "ERROR_UNSUPPORTED_TYPE"}]_vars

\* create_table refused for the name of a table that holds two records
C12_Witness ==
    /\ last.op = "create_table" /\ last.out = <<"ERROR_TABLE_EXISTS">>
    /\ Len(files["t1"].data) = 2

\* a type name as the schema stores it
StoredTypeName(ty) == IF ty = "INT" THEN "int" ELSE ty

\* C13: every stored schema starts with the column ID of type int; a
\* successful create_table stores ID followed by the columns given, in the
\* order given; a step of any other command than create_table and
\* drop_table leaves the schema store as it is, and create_table and
\* drop_table leave the column lists of the other tables as they are.
C13_SchemaStartsWithId ==
    [][/\ \A i \in 1..Len(meta') :
              /\ meta'[i].columns # <<>>
              /\ meta'[i].columns[1] = [name |-> "ID", type |-> "int"]
       /\ last'.op \notin {"create_table", "drop_table"} => meta' = meta
       /\ \A t \in TableNames :
              (last'.tbl # t /\ InMetadata(meta, t)) =>
                  InMetadata(meta', t) /\ ColumnsOf(meta', t) = ColumnsOf(meta, t)
       /\ (last'.op = "create_table" /\ last'.ret.ok) =>
              \A t \in TableNames, cols \in ColumnLists :
                  handle_create_table(t, cols) =>
                      LET stored == ColumnsOf(meta', t)
                      IN /\ Len(stored) = Len(cols) + 1
                         /\ \A i \in 1..Len(cols) :
                                stored[i + 1] = [name |-> cols[i].name,
                                                 type |-> StoredTypeName(cols[i].type)]]_vars

\* an update has run on one of two tables created with the columns a and b
C13_Witness ==
    /\ last.op = "update" /\ last.ret.ok
    /\ InMetadata(meta, "t1") /\ InMetadata(meta, "t2")
    /\ ColumnsOf(meta, "t1") = <<[name |-> "ID", type |-> "int"],
                                 [name |-> "a", type |-> "int"],
                                 [name |-> "b", type |-> "bool"]>>

\* no select with this table and predicate has been cached
NotCached(t, w) == \A e \in cache : ~(e.key.tbl = t /\ e.key.where = w)

\* the records that match a predicate, in stored order
MatchingRecords(records, w) ==
    Picked(records, {i \in 1..Len(records) : RecordMatches(records[i], w)}, 1)

\* C14 as claimed: a select that executes on a table of the schema returns,
\* without predicate, all records in stored order or "table is empty" when
\* there are none; with a predicate, the matching records in stored order,
\* and "no records found" with empty data whenever nothing matches.
C14_SelectAsClaimed ==
    [][last'.op = "select" =>
        \A t \in TableNames, w \in SelectClauses :
            (handle_select(t, w) /\ NotCached(t, w) /\ InMetadata(meta, t)) =>
                LET records == files[t].data
                    found == MatchingRecords(records, w)
                IN /\ last'.ret.ok
                   /\ IF w = <<>>
                      THEN /\ last'.ret.data = records
                           /\ records = <<>> => last'.ret.msg = "TABLE_EMPTY"
                      ELSE /\ last'.ret.data = found
                           /\ found = <<>> => last'.ret.msg = "NO_RECORDS_FOUND"]_vars

\* C14 as amended: on a table without records the outcome is "table is
\* empty" with or without a predicate; on a table with records it is all
\* records without predicate, the matching records with one, and "no
\* records found" with empty data when none of them matches.
C14_SelectExecutes ==
    [][last'.op = "select" =>
        \A t \in TableNames, w \in SelectClauses :
            (handle_select(t, w) /\ NotCached(t, w) /\ InMetadata(meta, t)) =>
                LET records == files[t].data
                    found == MatchingRecords(records, w)
                IN /\ last'.ret.ok
                   /\ last'.ret.data = found
                   /\ records = <<>> => last'.ret.msg = "TABLE_EMPTY"
                   /\ (records # <<>> /\ found = <<>>) => last'.ret.msg = "NO_RECORDS_FOUND"
                   /\ found # <<>> => last'.ret.msg \notin {"TABLE_EMPTY", "NO_RECORDS_FOUND"}]_vars

\* a select with predicate has returned one of the two stored records
C14_Witness ==
    /\ last.op = "select" /\ last.ret.ok
    /\ Len(files["t1"].data) = 2 /\ Len(last.ret.data) = 1
    /\ last.ret.data = MatchingRecords(files["t1"].data, <<Entry("a", IntV(1))>>)

\* C15: an outcome select has returned for a table and predicate stays
\* memoized whatever command runs (insert, update and delete included),
\* and every select with a memoized table and predicate returns the
\* memoized outcome; a select that executes memoizes what it returns.
C15_SelectMemoized ==
    [][/\ cache \subseteq cache'
       /\ last'.op = "select" =>
              \A t \in TableNames, w \in SelectClauses :
                  handle_select(t, w) =>
                      /\ \A e \in cache :
                             (e.key.tbl = t /\ e.key.where = w) => last'.ret = e.value
                      /\ \E e \in cache' :
                             e.key.tbl = t /\ e.key.where = w /\ e.value = last'.ret]_vars

\* the predicate query, repeated after a matching row was inserted, has
\* returned the empty result memoized before the insert
C15_Witness ==
    /\ last.op = "select" /\ last.ret.ok /\ last.ret.data = <<>>
    /\ NotCached("t1", <<>>)
    /\ MatchingRecords(files["t1"].data, <<Entry("a", IntV(1))>>) # <<>>

\* C16: a select on a table name that is not in the schema store at the
\* time of the call fails with NotFound and returns no records.
C16_SelectAbsentNotFound ==
    [][last'.op = "select" =>
        \A t \in TableNames, w \in SelectClauses :
            (handle_select(t, w) /\ ~InMetadata(meta, t)) =>
                /\ ~last'.ret.ok
                /\ last'.ret.msg = "ERROR_TABLE_NOT_EXISTS"
                /\ last'.ret.data = <<>>]_vars

\* the declared type of a column of a table
DeclaredType(m, t, c) ==
    (CHOOSE col \in SeqToSet(ColumnsOf(m, t)) : col.name = c).type

\* C20: update rejects a SET assignment whose value is not of the kind its
\* column declares, and leaves the records as they are (stated for schemas
\* whose column names are all different); with the same check in insert,
\* every stored field keeps a value of its column's declared kind.
C20_UpdateChecksKinds ==
    [][last'.op = "update" =>
        \A t \in TableNames, sc \in SetClauses, w \in WhereClauses :
            (/\ handle_update(t, sc, w)
             /\ InMetadata(meta, t) /\ DistinctColumnNames(meta, t)
             /\ \E i \in 1..Len(sc) :
                    /\ \E col \in SeqToSet(ColumnsOf(meta, t)) : col.name = sc[i].col
                    /\ sc[i].val.k # DeclaredType(meta, t, sc[i].col))
            => ~last'.ret.ok /\ files' = files]_vars

\* C17: the command loop never dies on bad input: after every line that is
\* not the exit command -- an unknown command, a malformed clause, a
\* declined confirmation, a command whose engine call returns nothing --
\* the loop has printed something and is still reading; the loop is left
\* only by exit, by end of input or by an interrupt at the command prompt.
C17_LoopSurvivesEveryLine ==
    [][ /\ \A line \in Lines : \A ans \in AnswersTo(line) :
               (run_line(line, ans) /\ parse_complex_command(line).command # "exit")
                   => (~Stopped' /\ last'.out # <<>>)
        /\ Stopped' => last'.op \in {"exit", "EOFError", "KeyboardInterrupt"} ]_vars

\* a confirmation was declined, the engine call returned nothing, run()
\* printed the line for the exception that followed, and the loop reads on
C17_Witness ==
    /\ last.op = "drop_table"
    /\ last.ret.none
    /\ last.out = <<"CANCELLED", "UNEXPECTED_ERROR">>
    /\ ~Stopped

\* the select lines of the model whose WHERE clause is malformed
MalformedWhereSelects ==
    { line \in Lines :
          /\ parse_complex_command(line).command = "select"
          /\ Len(parse_complex_command(line).args) > 1
          /\ parse_complex_command(line).args[2].s = "where"
          /\ From(parse_complex_command(line).args, 3) # <<>>
          /\ \/ Len(From(parse_complex_command(line).args, 3)) # 3
             \/ parse_complex_command(line).args[4].s # "=" }

\* C18: a select whose WHERE clause is malformed (not three tokens, or a
\* middle token other than "=") does not run as the unfiltered select: it
\* returns no records and prints no table.
C18_MalformedWhereSelectFails ==
    [][ \A line \in MalformedWhereSelects :
            run_line(line, "")
                => /\ last'.ret.data = <<>>
                   /\ \A i \in 1..Len(last'.out) : last'.out[i] # "TABLE" ]_vars

\* the command line: insert into users values ("Alice", 30)
InsertAlice == W(<<"insert", "into", "users", "values", "Alice", "30">>)

\* C19: the insert line with the literals "Alice" and 30, when it succeeds,
\* stores as the last record one whose name is the text as typed, letter
\* case preserved, and whose age is 30.
C19_LiteralStoredAsTyped ==
    [][ (run_line(InsertAlice, "") /\ last'.ret.ok)
            => LET data == files'["users"].data
               IN /\ data # <<>>
                  /\ data[Len(data)]["name"] = StrV("Alice")
                  /\ data[Len(data)]["age"] = IntV(30) ]_vars

\* the names of the schema columns of a table
SchemaColumnNames(m, t) == {ColumnsOf(m, t)[i].name : i \in 1..Len(ColumnsOf(m, t))}

\* the columns a SET and a WHERE mapping name
NamedColumns(sc, w) ==
    {sc[i].col : i \in 1..Len(sc)} \cup {w[i].col : i \in 1..Len(w)}

\* C21: update fails and leaves the records of the table as they are in each
\* of these cases, tested in this order: the table is absent (NotFound); a
\* column named by SET or WHERE is not a schema column (the message names
\* such a column and the table); the table has no records ("table empty");
\* no record matches the WHERE mapping ("no records match").
C21_UpdateFailsInOrder ==
    [][last'.op = "update" =>
        \A t \in TableNames, sc \in SetClauses, w \in WhereClauses :
            (last'.tbl = t /\ handle_update(t, sc, w)) =>
                IF ~InMetadata(meta, t)
                THEN /\ ~last'.ret.ok /\ last'.ret.msg = "ERROR_TABLE_NOT_EXISTS"
                     /\ files' = files
                ELSE IF NamedColumns(sc, w) \ SchemaColumnNames(meta, t) # {}
                THEN /\ ~last'.ret.ok /\ last'.ret.msg = "ERROR_COLUMN_NOT_EXISTS"
                     /\ last'.ret.args[1] \in NamedColumns(sc, w) \ SchemaColumnNames(meta, t)
                     /\ last'.ret.args[2] = t
                     /\ files' = files
                ELSE IF files[t].data = <<>>
                THEN /\ ~last'.ret.ok /\ last'.ret.msg = "TABLE_EMPTY"
                     /\ files' = files
                ELSE IF \A i \in 1..Len(files[t].data) : ~RecordMatches(files[t].data[i], w)
                THEN /\ ~last'.ret.ok /\ last'.ret.msg = "NO_MATCH"
                     /\ files' = files
                ELSE TRUE]_vars

\* an update naming an unknown column was refused for that column although
\* the table holds records, none of which the WHERE mapping could match
C21_Witness ==
    /\ last.op = "update" /\ last.tbl = "t1"
    /\ last.ret.msg = "ERROR_COLUMN_NOT_EXISTS"
    /\ last.ret.args = <<"zz", "t1">>
    /\ files["t1"].data # <<>>

\* C22: every engine operation returns a success flag with a message for
\* every input and every outcome, a declined confirmation included, and
\* never a bare empty value: after every command that called the engine,
\* what the engine returned is the tuple.
C22_EngineReturnsFlagAndMessage ==
    [][ \A t \in CachedTables :
            (\/ \E cols \in LeanColumnLists :
                    /\ cols # <<>>
                    /\ \A i \in 1..Len(cols) : validate_column_format(cols[i])
                    /\ handle_create_table(t, cols)
             \/ \E vs \in LeanValueLists : handle_insert(t, vs)
             \/ \E w \in SelectClauses : handle_select(t, w)
             \/ \E sc \in LeanSetClauses, w \in LeanWhereClauses : handle_update(t, sc, w)
             \/ \E w \in LeanWhereClauses, ans \in Answers : handle_delete(t, w, ans)
             \/ \E ans \in Answers : handle_drop_table(t, ans))
                => ~last'.ret.none ]_vars

\* the command line: info users
InfoUsers == W(<<"info", "users">>)

\* C23: table_info is never served from the cache: for a table in the
\* schema it reports the number of records persisted for the table at the
\* time of the call, whatever selects are memoized, and memoizes nothing.
C23_TableInfoCountsCurrentRecords ==
    [][ (run_line(InfoUsers, "") /\ InMetadata(meta, "users"))
            => /\ last'.ret.ok
               /\ last'.ret.args = <<IntV(Len(files["users"].data))>>
               /\ cache' = cache ]_vars

\* info reported the current count while the memoized unfiltered select of
\* the same table still holds another number of records
C23_Witness ==
    /\ last.op = "info" /\ last.ret.ok
    /\ last.ret.args = <<IntV(Len(files["users"].data))>>
    /\ \E e \in cache :
           /\ e.key.tbl = "users" /\ e.key.where = <<>>
           /\ e.value.ok
           /\ Len(e.value.data) # Len(files["users"].data)

\* C24: at every command boundary a record document exists for a table name
\* exactly when the name is in the schema store; and a table that is
\* created, also under a name dropped before, starts with an empty record
\* list.
C24_DocumentIffSchema ==
    /\ [](\A t \in TableNames : files[t].exists <=> InMetadata(meta, t))
    /\ [][ \A t \in CachedTables :
               (last'.op = "create_table" /\ last'.tbl = t /\ last'.ret.ok)
                   => files'[t] = [exists |-> TRUE, data |-> <<>>] ]_vars

\* the table was created again and is empty, while a memoized select still
\* holds the records it had before it was dropped
C24_Witness ==
    /\ last.op = "create_table" /\ last.tbl = "t1" /\ last.ret.ok
    /\ InMetadata(meta, "t1")
    /\ files["t1"] = [exists |-> TRUE, data |-> <<>>]
    /\ \E e \in cache : e.key.tbl = "t1" /\ e.value.ok /\ e.value.data # <<>>

\* C25: every stored record of a table has exactly the names of the table's
\* schema columns as its keys: none lacks a schema column, none carries a
\* key from outside the schema.
C25_RecordKeysAreSchemaColumns ==
    \A t \in TableNames :
        IF InMetadata(meta, t)
        THEN \A i \in 1..Len(files[t].data) :
                 DOMAIN files[t].data[i] = SchemaColumnNames(meta, t)
        ELSE files[t].data = <<>>

\* an update has just rewritten a record of a table with two data columns,
\* next to a record it left alone
C25_Witness ==
    /\ last.op = "update" /\ last.tbl = "t1" /\ last.ret.ok
    /\ SchemaColumnNames(meta, "t1") = {"ID", "a", "b"}
    /\ Len(files["t1"].data) >= 2
    /\ Len(last.ret.args) < Len(files["t1"].data)

\* C26: insert, select, update, delete and table_info never change the
\* schema store -- only create_table and drop_table do -- and insert, update
\* and delete on a table never change the record document of another table;
\* select and table_info change no record document.
C26_CommandsKeepTheirFrame ==
    [][ /\ last'.op \in {"insert", "select", "update", "delete", "info"} => meta' = meta
        /\ meta' # meta => last'.op \in {"create_table", "drop_table"}
        /\ last'.op \in {"insert", "update", "delete"}
               => \A t \in TableNames \ {last'.tbl} : files'[t] = files[t]
        /\ last'.op \in {"select", "info"} => files' = files ]_vars

\* a delete has just removed the record of one table while the other table
\* holds a record that matches the same WHERE mapping
C26_Witness ==
    /\ last.op = "delete" /\ last.ret.ok /\ last.tbl = "t1"
    /\ InMetadata(meta, "t1") /\ InMetadata(meta, "t2")
    /\ files["t1"].data = <<>>
    /\ \E i \in 1..Len(files["t2"].data) :
           RecordMatches(files["t2"].data[i], <<Entry("a", IntV(1))>>)

\* C27: for every table, after any sequence of inserts, deletes and updates
\* whose SET mapping does not assign the ID column (the SET mappings of
\* SpecTables assign column a), the persisted records are in strictly
\* increasing ID order.
C27_RecordsInIncreasingIdOrder ==
    \A t \in TableNames :
        \A i, j \in 1..Len(files[t].data) :
            i < j => files[t].data[i]["ID"].n < files[t].data[j]["ID"].n

\* an insert has appended ID 3 behind ID 2, the record with ID 1 having
\* been deleted
C27_Witness ==
    /\ last.op = "insert" /\ last.ret.ok
    /\ \E t \in TableNames :
           /\ last.tbl = t
           /\ Len(files[t].data) = 2
           /\ files[t].data[1]["ID"] = IntV(2)
           /\ files[t].data[2]["ID"] = IntV(3)
====
